---- MODULE Spec2Model ----
(***************************************************************************)
(* PDF structure extractor: src/src/extractor.py (PDFExtractor),           *)
(* src/src/main.py (the batch driver), src/validate_output.py (the output  *)
(* schema) and the label vocabularies fitted by src/train_models.py and    *)
(* src/train_model.py.                                                     *)
(*                                                                         *)
(* Texts are sequences of one-character strings, so that str.strip() is    *)
(* computed.  Font sizes are given in half points, so that round() has     *)
(* fractional inputs.  A booster is a decision tree: the block booster       *)
(* splits on x_indentation, which is free per span, so every block         *)
(* labelling of a document's spans is produced; the level booster splits   *)
(* on avg_size.  The pipeline treats both as black boxes.                  *)
(***************************************************************************)
EXTENDS Integers, Sequences, FiniteSets, TLC

(***************************************************************************)
(* Bounds of the model.                                                    *)
(***************************************************************************)
\* most items (text spans and image blocks) of one document
MaxSpans == 2
\* most PDF files of one batch run
MaxDocs == 3
\* most words of one page, and of one line handed to process_line
MaxWords == 3

(***************************************************************************)
(* The input universe: what the span source (PyMuPDF) can hand over.       *)
(***************************************************************************)
\* span["text"]: whitespace only, plain, with leading whitespace
RawTexts == { <<" ">>, <<"T">>, <<" ", "H">> }
\* span["size"] in half points: 10.5 and 11.5
RawSizes == { 21, 23 }
\* span["font"]
Fonts == { "Helvetica" }
\* span["bbox"][0]
Indents == { 0, 10, 50 }
\* span["bbox"][1]
Tops == { 0, 1 }

Whitespace == { " " }

ImageBlock ==
  [type |-> 1, text |-> <<>>, size |-> 21, font |-> "Helvetica", x0 |-> 0, y0 |-> 0]

BlankSpan ==
  [type |-> 0, text |-> <<" ">>, size |-> 21, font |-> "Helvetica", x0 |-> 0, y0 |-> 0]

TextSpans ==
  [type : {0}, text : RawTexts \ { <<" ">> }, size : RawSizes, font : Fonts,
   x0 : Indents, y0 : Tops]

\* one block of a page, flattened to its spans: an image block or a text span
Items == { ImageBlock, BlankSpan } \cup TextSpans

\* the pages of n items
ItemSeqs(n) == [1..n -> Items]

\* the numbers of items of the two pages of a document
PageSizes == { m \in (0..MaxSpans) \X (0..MaxSpans) : m[1] + m[2] <= MaxSpans }

\* a readable document: its two pages, each the sequence of its items
Document(p1, p2) == [corrupt |-> FALSE, pages |-> << p1, p2 >>]

\* a file fitz.open cannot read
CorruptDocument == [corrupt |-> TRUE, pages |-> << <<>>, <<>> >>]

(***************************************************************************)
(* The loaded artifacts.                                                   *)
(***************************************************************************)
TrainingRuns == { "train_models", "train_model" }

ArtifactFiles ==
  << "block_model.lgb", "level_model.lgb",
     "block_label_encoder.joblib", "level_label_encoder.joblib" >>

\* LabelEncoder.classes_ of the block labels: sorted, upper case first
BlockClasses(run) ==
  IF run = "train_models" THEN << "Title", "heading", "other" >>
  ELSE << "body_text", "heading", "title" >>

\* LabelEncoder.classes_ of the heading levels
LevelClasses(run) ==
  IF run = "train_models" THEN << "H1", "H2", "H3" >>
  ELSE << "H1", "H2", "H3", "H4" >>

FeatureNames == << "avg_size", "is_bold", "x_indentation", "page_num" >>

NoExtractor ==
  [ready |-> FALSE,
   model_block |-> [kind |-> "none", num_class |-> 0],
   model_level |-> [kind |-> "none", num_class |-> 0],
   le_block |-> <<>>, le_level |-> <<>>, features |-> <<>>]

LoadedExtractor(run) ==
  [ready |-> TRUE,
   model_block |-> [kind |-> "block", num_class |-> Len(BlockClasses(run))],
   model_level |-> [kind |-> "level", num_class |-> Len(LevelClasses(run))],
   le_block |-> BlockClasses(run),
   le_level |-> LevelClasses(run),
   features |-> FeatureNames]

\* a variant that raises for a missing model file only and takes the vocabularies
\* of train_models.py in place of a missing vocabulary file
NewExtractorLenient(present, run) ==
  IF ArtifactFiles[1] \in present /\ ArtifactFiles[2] \in present
    THEN [raised |-> FALSE, extractor |-> LoadedExtractor(run)]
    ELSE [raised |-> TRUE, extractor |-> NoExtractor]

\* PDFExtractor.__init__: the four loads in order, the first missing file raises
NewExtractor(present, run) ==
  IF \A i \in 1..Len(ArtifactFiles) : ArtifactFiles[i] \in present
    THEN [raised |-> FALSE, extractor |-> LoadedExtractor(run)]
    ELSE [raised |-> TRUE, extractor |-> NoExtractor]

(***************************************************************************)
(* Library functions, by what they compute.                                *)
(***************************************************************************)
RECURSIVE LStrip(_)
LStrip(t) ==
  IF t = <<>> THEN <<>>
  ELSE IF Head(t) \in Whitespace THEN LStrip(Tail(t)) ELSE t

RECURSIVE RStrip(_)
RStrip(t) ==
  IF t = <<>> THEN <<>>
  ELSE IF t[Len(t)] \in Whitespace THEN RStrip(SubSeq(t, 1, Len(t) - 1)) ELSE t

\* str.strip()
Strip(t) == RStrip(LStrip(t))

\* round() of a size given in half points: halves go to the even integer
Round(h) ==
  LET q == h \div 2
  IN  IF h % 2 = 0 THEN q ELSE IF q % 2 = 0 THEN q ELSE q + 1

\* "bold" in span["font"].lower()
IsBoldFont(font) == font \in { "Helvetica-Bold", "Times-Bold" }

\* numpy argmax of one row: the first index of the largest value, from 0
Argmax(scores) ==
  CHOOSE i \in 0..(Len(scores) - 1) :
    /\ \A j \in 0..(Len(scores) - 1) : scores[j + 1] <= scores[i + 1]
    /\ \A j \in 0..(i - 1) : scores[j + 1] < scores[i + 1]

\* LabelEncoder.inverse_transform of one code
InverseTransform(le, code) == le[code + 1]

\* the leaf a booster sends a feature row to: the block booster splits on
\* x_indentation, the level booster on avg_size
Leaf(booster, f) ==
  IF booster.kind = "block"
    THEN IF f.x_indentation < 10 THEN 1
         ELSE IF f.x_indentation < 50 THEN 2
         ELSE booster.num_class
    ELSE IF f.avg_size >= 12 THEN 1 ELSE booster.num_class

\* Booster.predict of one row: the class probabilities, in tenths
Predict(booster, f) ==
  [k \in 1..booster.num_class |-> IF k = Leaf(booster, f) THEN 8 ELSE 1]

\* a column of a row; bbox_y1 is the column the sorts add: bbox[1]
Column(row, name) ==
  CASE name = "page_num" -> row.page_num
    [] name = "font_size" -> row.font_size
    [] name = "bbox_y1" -> row.bbox.y0

\* whether row a sorts strictly before row b by the columns, each ascending or not
RECURSIVE Before(_, _, _, _)
Before(a, b, by, ascending) ==
  IF by = <<>> THEN FALSE
  ELSE LET x == Column(a, Head(by))
           y == Column(b, Head(by))
       IN  IF x = y THEN Before(a, b, Tail(by), Tail(ascending))
           ELSE IF Head(ascending) THEN x < y ELSE x > y

\* DataFrame.sort_values by several columns: a stable sort (lexsort)
RECURSIVE InsertRow(_, _, _, _)
InsertRow(sorted, r, by, ascending) ==
  IF sorted = <<>> THEN << r >>
  ELSE IF Before(r, Head(sorted), by, ascending) THEN << r >> \o sorted
  ELSE << Head(sorted) >> \o InsertRow(Tail(sorted), r, by, ascending)

RECURSIVE SortValues(_, _, _)
SortValues(df, by, ascending) ==
  IF df = <<>> THEN <<>>
  ELSE InsertRow(SortValues(SubSeq(df, 1, Len(df) - 1), by, ascending),
                 df[Len(df)], by, ascending)

(***************************************************************************)
(* PDFExtractor                                                            *)
(***************************************************************************)
\* a variant that tests the text before it is stripped
HasTextUnstripped(span) == span.type = 0 /\ span.text # <<>>

\* a span of a text block (type 0) whose text is not only whitespace
HasText(span) == span.type = 0 /\ Strip(span.text) # <<>>

\* the text blocks of one page, page_num counted from 0
RECURSIVE PageBlocks(_, _)
PageBlocks(items, page_num) ==
  IF items = <<>> THEN <<>>
  ELSE LET span == Head(items)
           rest == PageBlocks(Tail(items), page_num)
       IN  IF HasText(span)
             THEN << [text |-> Strip(span.text),
                      font_size |-> Round(span.size),
                      font_name |-> span.font,
                      is_bold |-> IsBoldFont(span.font),
                      page_num |-> page_num + 1,
                      bbox |-> [x0 |-> span.x0, y0 |-> span.y0]] >> \o rest
             ELSE rest

RECURSIVE BlocksFrom(_, _)
BlocksFrom(pages, page_num) ==
  IF page_num >= Len(pages) THEN <<>>
  ELSE PageBlocks(pages[page_num + 1], page_num) \o BlocksFrom(pages, page_num + 1)

GetTextBlocks(doc) == BlocksFrom(doc.pages, 0)

\* pd.DataFrame(text_blocks) with avg_size and x_indentation added; index is the
\* RangeIndex of the frame
DataFrame(text_blocks) ==
  [i \in 1..Len(text_blocks) |->
     [index |-> i - 1,
      text |-> text_blocks[i].text,
      font_size |-> text_blocks[i].font_size,
      is_bold |-> text_blocks[i].is_bold,
      page_num |-> text_blocks[i].page_num,
      bbox |-> text_blocks[i].bbox,
      avg_size |-> text_blocks[i].font_size,
      x_indentation |-> text_blocks[i].bbox.x0,
      block_label |-> "",
      level |-> ""]]

\* df[self.features] of one row
Features(row) ==
  [avg_size |-> row.avg_size, is_bold |-> row.is_bold,
   x_indentation |-> row.x_indentation, page_num |-> row.page_num]

\* step 3: the block label of every row
PredictBlocks(extractor, df) ==
  [i \in 1..Len(df) |->
     [df[i] EXCEPT !.block_label =
        InverseTransform(extractor.le_block,
                         Argmax(Predict(extractor.model_block, Features(df[i]))))]]

\* step 5: the level of every heading row
PredictLevels(extractor, headings_df) ==
  [i \in 1..Len(headings_df) |->
     [headings_df[i] EXCEPT !.level =
        InverseTransform(extractor.le_level,
                         Argmax(Predict(extractor.model_level, Features(headings_df[i]))))]]

IsTitleRow(row) == row.block_label = "Title"

\* a variant that takes every row that is not a title for a heading
IsHeadingRowNotTitle(row) == row.block_label # "Title"

IsHeadingRow(row) == row.block_label = "heading"

IsFirstPageRow(row) == row.page_num = 1

\* a variant that orders the Title rows by the top coordinate alone
TitleByTopOnly == << "bbox_y1" >>

\* the sort of the Title rows: by=['page_num', 'bbox_y1'], ascending=[True, True]
TitleBy == << "page_num", "bbox_y1" >>

TitleAscending == << TRUE, TRUE >>

\* a variant that sorts the first page by ascending font size
FallbackAscendingBoth == << TRUE, TRUE >>

\* the sort of the first page: by=['font_size', 'bbox_y1'], ascending=[False, True]
FallbackBy == << "font_size", "bbox_y1" >>

\* ascending=[False, True]
FallbackAscending == << FALSE, TRUE >>

\* a variant that orders the headings by the page alone
OutlineByPageOnly == << "page_num" >>

\* the sort of the headings: by=['page_num', 'bbox_y1']
OutlineBy == << "page_num", "bbox_y1" >>

OutlineAscending == << TRUE, TRUE >>

\* the fallback of _extract_title
FallbackTitle(all_df) ==
  LET first_page_blocks == SelectSeq(all_df, IsFirstPageRow)
  IN  IF first_page_blocks # <<>>
        THEN SortValues(first_page_blocks, FallbackBy, FallbackAscending)[1].text
        ELSE <<>>

\* _extract_title
ExtractTitle(title_df, all_df) ==
  IF title_df # <<>>
    THEN SortValues(title_df, TitleBy, TitleAscending)[1].text
    ELSE FallbackTitle(all_df)

\* _generate_outline; index is the frame index iterrows hands over beside the row
GenerateOutline(headings_df) ==
  IF headings_df = <<>> THEN <<>>
  ELSE LET sorted_headings == SortValues(headings_df, OutlineBy, OutlineAscending)
       IN  [i \in 1..Len(sorted_headings) |->
              [level |-> sorted_headings[i].level,
               text |-> sorted_headings[i].text,
               page |-> sorted_headings[i].page_num,
               index |-> sorted_headings[i].index]]

\* a variant that removes every entry with the title's text
RemoveTitleEverywhere(title, outline) ==
  IF title # <<>> THEN SelectSeq(outline, LAMBDA e : e.text # title) ELSE outline

\* a variant that pops the last entry, outline.pop(), when the head has the title's text
RemoveTitlePopLast(title, outline) ==
  IF title # <<>> /\ outline # <<>> /\ outline[1].text = title
    THEN SubSeq(outline, 1, Len(outline) - 1)
    ELSE outline

\* "Remove title from outline if it was captured as a heading"
RemoveTitle(title, outline) ==
  IF title # <<>> /\ outline # <<>> /\ outline[1].text = title
    THEN Tail(outline)
    ELSE outline

\* an outline entry as it is returned and written
OutlineEntry(e) == [level |-> e.level, text |-> e.text, page |-> e.page]

EmptyResult == [title |-> <<>>, outline |-> <<>>]

\* what one call of extract did: its result and, beside it, the values of its locals
NoRun ==
  [raised |-> FALSE, result |-> EmptyResult, df |-> <<>>, sorted |-> <<>>,
   kept |-> <<>>, block_calls |-> 0, level_calls |-> 0, level_input |-> <<>>]

Extract(extractor, doc) ==
  IF doc.corrupt THEN [NoRun EXCEPT !.raised = TRUE]
  ELSE
    LET text_blocks == GetTextBlocks(doc)
    IN  IF text_blocks = <<>> THEN NoRun
        ELSE
          LET df == PredictBlocks(extractor, DataFrame(text_blocks))
              title_df == SelectSeq(df, IsTitleRow)
              title == ExtractTitle(title_df, df)
              headings == SelectSeq(df, IsHeadingRow)
              headings_df ==
                IF headings # <<>> THEN PredictLevels(extractor, headings) ELSE <<>>
              sorted == GenerateOutline(headings_df)
              outline == RemoveTitle(title, sorted)
          IN  [raised |-> FALSE,
               result |-> [title |-> title,
                           outline |-> [i \in 1..Len(outline) |-> OutlineEntry(outline[i])]],
               df |-> df,
               sorted |-> sorted,
               kept |-> outline,
               block_calls |-> 1,
               level_calls |-> IF headings # <<>> THEN 1 ELSE 0,
               level_input |-> [i \in 1..Len(headings) |-> headings[i].index]]

\* a variant in which extract leaves the block vocabulary reversed
ExtractorAfterReversed(extractor) ==
  [extractor EXCEPT !.le_block =
     [k \in 1..Len(extractor.le_block) |->
        extractor.le_block[Len(extractor.le_block) + 1 - k]]]

\* extract assigns to no attribute of self
ExtractorAfter(extractor) == extractor

(***************************************************************************)
(* build_dataset.py: the words of a page, its lines, the feature rows      *)
(***************************************************************************)
\* word['top']
WordTops == { 0, 3, 5 }
\* word['size'] in half points: 10 and 12
WordSizes == { 20, 24 }

\* the words page.extract_words hands over: never empty, never whitespace
PageWords ==
  [text : { <<"T">>, <<"H">> }, top : WordTops, size : WordSizes,
   fontname : { "Helvetica-Bold" }, x0 : { 0 }]

\* the words a caller can put into a line handed to process_line
AnyWords ==
  [text : { <<>>, <<" ">>, <<"T">> }, top : { 0 }, size : WordSizes,
   fontname : { "Helvetica" }, x0 : { 0 }]

\* the ground truth of a document, as read from its JSON file, and the page number
GroundTruths ==
  { [title |-> << "T", " " >>,
     outline |-> << [text |-> << "H" >>, level |-> "H1"],
                    [text |-> << " ", "T", " ", "H" >>, level |-> "H4"] >>,
     page_number |-> 1],
    [title |-> <<>>, outline |-> <<>>, page_number |-> 2] }

\* title_text and outline_texts: the stripped title, the stripped texts with their levels
TitleText(ground_truth) == Strip(ground_truth.title)

OutlineTexts(ground_truth) ==
  [k \in 1..Len(ground_truth.outline) |->
     [text |-> Strip(ground_truth.outline[k].text),
      level |-> ground_truth.outline[k].level]]

\* a variant that compares a word with the first word of the current line
AnchorFirst(current_line) == current_line[1]

\* current_line[-1]: the word a new word is compared with
Anchor(current_line) == current_line[Len(current_line)]

\* abs(x - y)
Abs(x, y) == IF x >= y THEN x - y ELSE y - x

\* the threshold of the line grouping, in layout units
LineThreshold == 5

\* the loop of the line grouping from word k on
RECURSIVE GroupFrom(_, _, _, _)
GroupFrom(words, k, lines, current_line) ==
  IF k > Len(words) THEN Append(lines, current_line)
  ELSE IF current_line = <<>>
            \/ Abs(words[k].top, Anchor(current_line).top) < LineThreshold
         THEN GroupFrom(words, k + 1, lines, Append(current_line, words[k]))
         ELSE GroupFrom(words, k + 1, Append(lines, current_line), << words[k] >>)

\* the line grouping of the words of a page
GroupLines(words) == GroupFrom(words, 1, <<>>, <<>>)

\* " ".join of the texts of a line
RECURSIVE JoinTexts(_)
JoinTexts(line) ==
  IF line = <<>> THEN <<>>
  ELSE IF Len(line) = 1 THEN line[1].text
  ELSE line[1].text \o << " " >> \o JoinTexts(Tail(line))

\* the length of a longest common subsequence
RECURSIVE Lcs(_, _)
Lcs(a, b) ==
  IF a = <<>> \/ b = <<>> THEN 0
  ELSE IF Head(a) = Head(b) THEN 1 + Lcs(Tail(a), Tail(b))
  ELSE LET x == Lcs(Tail(a), b)
           y == Lcs(a, Tail(b))
       IN  IF x >= y THEN x ELSE y

\* fuzz.ratio(a, b) > 90: the ratio is 200 * lcs / (len(a) + len(b)), 0 for an empty string
FuzzRatioAbove90(a, b) ==
  /\ a # <<>>
  /\ b # <<>>
  /\ 200 * Lcs(a, b) > 90 * (Len(a) + Len(b))

\* the level of the first outline text that matches, or body_text
RECURSIVE OutlineLabel(_, _)
OutlineLabel(text, outlines) ==
  IF outlines = <<>> THEN "body_text"
  ELSE IF FuzzRatioAbove90(text, Head(outlines).text) THEN Head(outlines).level
  ELSE OutlineLabel(text, Tail(outlines))

RECURSIVE SumSizes(_)
SumSizes(line) == IF line = <<>> THEN 0 ELSE Head(line).size + SumSizes(Tail(line))

RECURSIVE Gcd(_, _)
Gcd(a, b) == IF b = 0 THEN a ELSE Gcd(b, a % b)

\* sum(sizes) / len(line), sizes in half points: the quotient as a fraction in lowest terms
AvgSize(line) ==
  LET num == SumSizes(line)
      den == 2 * Len(line)
      g == Gcd(num, den)
  IN  [num |-> num \div g, den |-> den \div g]

\* process_line: whether it raised, and all_features after it
ProcessLine(line, title, outlines, page_num, features) ==
  LET text == Strip(JoinTexts(line))
  IN  IF text = <<>> THEN [raised |-> FALSE, all_features |-> features]
      ELSE [raised |-> FALSE,
            all_features |->
              Append(features,
                     [text |-> text,
                      avg_size |-> AvgSize(line),
                      is_bold |-> IsBoldFont(line[1].fontname),
                      x_indentation |-> line[1].x0,
                      page_num |-> page_num,
                      label |-> IF FuzzRatioAbove90(text, title) THEN "title"
                                ELSE OutlineLabel(text, outlines)])]

VARIABLES
  words,            \* the words of the page
  ground_truth,     \* the ground truth of the document and the page number
  lines,            \* the lines of the page, once grouped
  ds_pc,            \* where build_dataset is: idle, page, lines, call, done
  next_line,        \* position in lines of the line handled next
  all_features,     \* the feature rows
  last_call         \* the last call of process_line: its line, whether it raised, the rows before it

dataset == << words, ground_truth, lines, ds_pc, next_line, all_features, last_call >>

NoCall == [made |-> FALSE, line |-> <<>>, raised |-> FALSE, rows_before |-> 0]

\* build_dataset is not running
DatasetIdle ==
  /\ words = <<>>
  /\ ground_truth \in { g \in GroundTruths : g.title = <<>> }
  /\ lines = <<>>
  /\ ds_pc = "idle"
  /\ next_line = 1
  /\ all_features = <<>>
  /\ last_call = NoCall

(***************************************************************************)
(* main: the batch run                                                     *)
(***************************************************************************)
VARIABLES
  input_exists,     \* whether the directory input/ exists
  present,          \* the artifact files in the model directory
  run,              \* the training run the artifact files come from
  pdf_files,        \* list(input_dir.glob("*.pdf")): the documents, in glob order
  pc,               \* where main is: start, loop, summary, exit
  extractor,        \* the PDFExtractor of main, NoExtractor before it is built
  next_file,        \* position in pdf_files of the file the loop handles next
  processed_count,
  error_count,
  output,           \* per file: whether output/<stem>.json is written, and its content
  exit_code,        \* the exit status of the process, once pc = "exit"
  runs              \* per file: what the call of extract on it did

main_vars ==
  << input_exists, present, run, pdf_files, pc, extractor, next_file,
     processed_count, error_count, output, exit_code, runs >>

vars == << main_vars, dataset >>

env == << input_exists, present, run, pdf_files >>

AllArtifacts == { ArtifactFiles[i] : i \in 1..Len(ArtifactFiles) }

\* the documents of the batches: unreadable, without text, titled, with repeated headings
TitleSpan == [type |-> 0, text |-> <<"T">>, size |-> 23, font |-> "Helvetica", x0 |-> 0, y0 |-> 0]

HeadingSpan == [type |-> 0, text |-> <<" ", "H">>, size |-> 23, font |-> "Helvetica", x0 |-> 10, y0 |-> 1]

DeepHeadingSpan == [type |-> 0, text |-> <<"T">>, size |-> 21, font |-> "Helvetica", x0 |-> 10, y0 |-> 0]

BodySpan == [type |-> 0, text |-> <<"T">>, size |-> 21, font |-> "Helvetica", x0 |-> 50, y0 |-> 1]

BatchDocuments ==
  { CorruptDocument,
    Document(<< BlankSpan, ImageBlock >>, <<>>),
    Document(<< TitleSpan, HeadingSpan >>, << BodySpan >>),
    Document(<< HeadingSpan, DeepHeadingSpan >>, << DeepHeadingSpan >>) }

Batches == UNION { [1..n -> BatchDocuments] : n \in 0..MaxDocs }

NotWritten == [written |-> FALSE, data |-> EmptyResult]

Init ==
  /\ \/ /\ input_exists \in BOOLEAN
        /\ present \in SUBSET AllArtifacts
        /\ pdf_files \in Batches
        /\ input_exists \/ pdf_files = <<>>
     \/ /\ input_exists = TRUE
        /\ present = AllArtifacts
        /\ \E n \in PageSizes :
             \E p1 \in ItemSeqs(n[1]), p2 \in ItemSeqs(n[2]) :
               pdf_files = << Document(p1, p2) >>
  /\ run \in TrainingRuns
  /\ pc = "start"
  /\ extractor = NoExtractor
  /\ next_file = 1
  /\ processed_count = 0
  /\ error_count = 0
  /\ output = [i \in 1..Len(pdf_files) |-> NotWritten]
  /\ exit_code = 0
  /\ runs = [i \in 1..Len(pdf_files) |-> NoRun]
  /\ DatasetIdle

Exit(code) ==
  /\ pc' = "exit"
  /\ exit_code' = code
  /\ UNCHANGED << env, dataset, extractor, next_file, processed_count, error_count, output, runs >>

\* main, lines 12-14: no input directory
NoInputDirectory ==
  /\ pc = "start"
  /\ ~input_exists
  /\ Exit(1)

\* main, lines 17-20: nothing to do
NoPdfFiles ==
  /\ pc = "start"
  /\ input_exists
  /\ pdf_files = <<>>
  /\ Exit(0)

\* main, lines 25-30: the extractor cannot be built
InitializeFailed ==
  /\ pc = "start"
  /\ input_exists
  /\ pdf_files # <<>>
  /\ NewExtractor(present, run).raised
  /\ Exit(1)

\* main, lines 25-33: the extractor is built, the counters are set
Initialize ==
  /\ pc = "start"
  /\ input_exists
  /\ pdf_files # <<>>
  /\ ~NewExtractor(present, run).raised
  /\ extractor' = NewExtractor(present, run).extractor
  /\ processed_count' = 0
  /\ error_count' = 0
  /\ pc' = "loop"
  /\ UNCHANGED << env, dataset, next_file, output, exit_code, runs >>

\* a variant of the loop that a failing file ends
ProcessFileStopOnError ==
  /\ pc = "loop"
  /\ next_file <= Len(pdf_files)
  /\ LET done == Extract(extractor, pdf_files[next_file])
     IN  /\ runs' = [runs EXCEPT ![next_file] = done]
         /\ extractor' = ExtractorAfter(extractor)
         /\ output' = [output EXCEPT ![next_file] =
                         [written |-> TRUE,
                          data |-> IF done.raised THEN EmptyResult ELSE done.result]]
         /\ processed_count' = processed_count + (IF done.raised THEN 0 ELSE 1)
         /\ error_count' = error_count + (IF done.raised THEN 1 ELSE 0)
         /\ pc' = IF next_file = Len(pdf_files) \/ done.raised THEN "summary" ELSE "loop"
  /\ next_file' = next_file + 1
  /\ UNCHANGED << env, dataset, exit_code >>

\* main, lines 35-55: one turn of the loop
ProcessFile ==
  /\ pc = "loop"
  /\ next_file <= Len(pdf_files)
  /\ LET done == Extract(extractor, pdf_files[next_file])
     IN  /\ runs' = [runs EXCEPT ![next_file] = done]
         /\ extractor' = ExtractorAfter(extractor)
         /\ IF ~done.raised
              THEN /\ output' = [output EXCEPT ![next_file] =
                                   [written |-> TRUE, data |-> done.result]]
                   /\ processed_count' = processed_count + 1
                   /\ UNCHANGED error_count
              ELSE /\ error_count' = error_count + 1
                   /\ output' = [output EXCEPT ![next_file] =
                                   [written |-> TRUE, data |-> EmptyResult]]
                   /\ UNCHANGED processed_count
  /\ next_file' = next_file + 1
  /\ pc' = IF next_file = Len(pdf_files) THEN "summary" ELSE "loop"
  /\ UNCHANGED << env, dataset, exit_code >>

\* main, lines 57-60: the summary and the exit status
Summary ==
  /\ pc = "summary"
  /\ Exit(IF error_count > 0 THEN 1 ELSE 0)

Next ==
  \/ NoInputDirectory
  \/ NoPdfFiles
  \/ InitializeFailed
  \/ Initialize
  \/ ProcessFile
  \/ Summary

Spec == Init /\ [][Next]_vars

(***************************************************************************)
(* build_dataset: one page, and process_line called on a line              *)
(***************************************************************************)
\* main is not running
MainIdle ==
  /\ input_exists = FALSE
  /\ present = {}
  /\ run = "train_model"
  /\ pdf_files = <<>>
  /\ pc = "idle"
  /\ extractor = NoExtractor
  /\ next_file = 1
  /\ processed_count = 0
  /\ error_count = 0
  /\ output = <<>>
  /\ exit_code = 0
  /\ runs = <<>>

InitDataset ==
  /\ MainIdle
  /\ ground_truth \in GroundTruths
  /\ \/ /\ ds_pc = "page"
        /\ \E n \in 0..MaxWords : words \in [1..n -> PageWords]
        /\ lines = <<>>
     \/ /\ ds_pc = "call"
        /\ words = <<>>
        /\ \E n \in 0..MaxWords : \E line \in [1..n -> AnyWords] : lines = << line >>
  /\ next_line = 1
  /\ all_features = <<>>
  /\ last_call = NoCall

\* the call of process_line on a line, and what it leaves
CallOn(line) ==
  LET done == ProcessLine(line, TitleText(ground_truth), OutlineTexts(ground_truth),
                          ground_truth.page_number, all_features)
  IN  /\ all_features' = done.all_features
      /\ last_call' = [made |-> TRUE, line |-> line, raised |-> done.raised,
                       rows_before |-> Len(all_features)]

\* build_dataset, lines 24-38: the words of the page are grouped, a page without words is skipped
GroupPage ==
  /\ ds_pc = "page"
  /\ IF words = <<>>
       THEN /\ ds_pc' = "done"
            /\ UNCHANGED lines
       ELSE /\ lines' = GroupLines(words)
            /\ ds_pc' = "lines"
  /\ UNCHANGED << main_vars, words, ground_truth, next_line, all_features, last_call >>

\* build_dataset, lines 40-41: one turn of the loop over the lines
ProcessNextLine ==
  /\ ds_pc = "lines"
  /\ next_line <= Len(lines)
  /\ CallOn(lines[next_line])
  /\ next_line' = next_line + 1
  /\ ds_pc' = IF next_line = Len(lines) THEN "done" ELSE "lines"
  /\ UNCHANGED << main_vars, words, ground_truth, lines >>

\* process_line called on a line of the caller's
CallProcessLine ==
  /\ ds_pc = "call"
  /\ CallOn(lines[1])
  /\ ds_pc' = "done"
  /\ UNCHANGED << main_vars, words, ground_truth, lines, next_line >>

NextDataset ==
  \/ GroupPage
  \/ ProcessNextLine
  \/ CallProcessLine

SpecDataset == InitDataset /\ [][NextDataset]_vars

(***************************************************************************)
(* The output schema: src/validate_output.py                               *)
(***************************************************************************)
ValidLevels == { "H1", "H2", "H3" }

\* the errors of one outline item, in the order of the fields level, text, page
ItemErrors(item) ==
  (IF item.level \notin ValidLevels THEN << "level" >> ELSE <<>>)
  \o (IF Strip(item.text) = <<>> THEN << "text" >> ELSE <<>>)
  \o (IF item.page < 1 THEN << "page" >> ELSE <<>>)

RECURSIVE OutlineErrors(_)
OutlineErrors(outline) ==
  IF outline = <<>> THEN <<>>
  ELSE ItemErrors(Head(outline)) \o OutlineErrors(Tail(outline))

\* validate_output_format: the list of errors
ValidateOutputFormat(data) == OutlineErrors(data.outline)

(***************************************************************************)
(* Properties                                                              *)
(***************************************************************************)
\* the files the loop has handled, and those whose extraction returned
Handled == { i \in 1..Len(pdf_files) : i < next_file }

Extracted == { i \in Handled : ~runs[i].raised }

Range(seq) == { seq[j] : j \in 1..Len(seq) }

TitleRows(df) == { r \in Range(df) : r.block_label = "Title" }

FirstPageRows(df) == { r \in Range(df) : r.page_num = 1 }

\* whether the head-only rule applies to a sorted outline
HeadIsTitle(title, sorted) ==
  title # <<>> /\ sorted # <<>> /\ sorted[1].text = title

\* C1: head-only title de-duplication.  When the title is not empty and the
\* first entry of the sorted outline has the title's text, the returned outline
\* is the sorted outline without that one entry; otherwise it is the sorted
\* outline.  Entries with the title's text at later positions stay, also the one
\* that becomes the new head.
C1_HeadOnlyDedup ==
  \A i \in Extracted :
    LET title == runs[i].result.title
        sorted == runs[i].sorted
        outline == output[i].data.outline
    IN  IF HeadIsTitle(title, sorted)
          THEN /\ Len(outline) = Len(sorted) - 1
               /\ \A j \in 1..Len(outline) : outline[j] = OutlineEntry(sorted[j + 1])
          ELSE /\ Len(outline) = Len(sorted)
               /\ \A j \in 1..Len(outline) : outline[j] = OutlineEntry(sorted[j])

\* the head was removed and the entry behind it, with the title's text, is the new head
C1_Witness ==
  \E i \in Extracted :
    /\ HeadIsTitle(runs[i].result.title, runs[i].sorted)
    /\ Len(runs[i].sorted) = 2
    /\ runs[i].sorted[2].text = runs[i].result.title
    /\ Len(output[i].data.outline) = 1
    /\ output[i].data.outline[1].text = output[i].data.title

\* C2 as stated: no entry of the returned outline has the text of the returned title.
C2_NoEntryEqualsTitle ==
  \A i \in Extracted :
    \A j \in 1..Len(output[i].data.outline) :
      output[i].data.outline[j].text # output[i].data.title

\* C2 amended: the returned outline has an entry with the title's text exactly
\* when the sorted outline has one at a position other than its head.
C2_EntryEqualsTitleOnlyBehindHead ==
  \A i \in Extracted :
    (\E j \in 1..Len(output[i].data.outline) :
       output[i].data.outline[j].text = output[i].data.title)
    <=> (\E j \in 2..Len(runs[i].sorted) :
           runs[i].sorted[j].text = output[i].data.title)

\* the head had the title's text and the returned outline has no entry with it
C2_Witness ==
  \E i \in Extracted :
    /\ HeadIsTitle(output[i].data.title, runs[i].sorted)
    /\ Len(output[i].data.outline) = 1
    /\ output[i].data.outline[1].text # output[i].data.title

\* the row of the frame an outline entry comes from
RowOf(i, e) == runs[i].df[e.index + 1]

\* C3: the returned outline is non-decreasing in (page, top coordinate), and
\* entries with the same page and top coordinate keep the order of the spans;
\* the level takes no part.
C3_ReadingOrderStable ==
  \A i \in Extracted :
    LET kept == runs[i].kept
        outline == output[i].data.outline
    IN  /\ Len(outline) = Len(kept)
        /\ \A j \in 1..Len(kept) :
             /\ outline[j] = OutlineEntry(kept[j])
             /\ RowOf(i, kept[j]).text = kept[j].text
             /\ RowOf(i, kept[j]).page_num = kept[j].page
        /\ \A j \in 1..(Len(kept) - 1) :
             LET a == RowOf(i, kept[j])
                 b == RowOf(i, kept[j + 1])
             IN  \/ a.page_num < b.page_num
                 \/ a.page_num = b.page_num /\ a.bbox.y0 < b.bbox.y0
                 \/ /\ a.page_num = b.page_num
                    /\ a.bbox.y0 = b.bbox.y0
                    /\ a.index < b.index

\* two entries with the same page and top coordinate, the deeper level first
C3_Witness ==
  \E i \in Extracted :
    /\ Len(output[i].data.outline) = 2
    /\ RowOf(i, runs[i].kept[1]).bbox.y0 = RowOf(i, runs[i].kept[2]).bbox.y0
    /\ output[i].data.outline[1].page = output[i].data.outline[2].page
    /\ output[i].data.outline[1].level = "H3"
    /\ output[i].data.outline[2].level = "H1"

\* C4: the title fallback.  With no row labelled Title the title is the text of a
\* first-page row of the largest font size and, among those, the smallest top
\* coordinate, and it is empty when the first page has no row.  With a row
\* labelled Title the title is the text of such a row.
C4_TitleFallback ==
  \A i \in Extracted :
    LET df == runs[i].df
        title == output[i].data.title
    IN  IF TitleRows(df) = {}
          THEN IF FirstPageRows(df) = {}
                 THEN title = <<>>
                 ELSE \E r \in FirstPageRows(df) :
                        /\ title = r.text
                        /\ \A q \in FirstPageRows(df) :
                             /\ q.font_size <= r.font_size
                             /\ q.font_size = r.font_size => r.bbox.y0 <= q.bbox.y0
          ELSE \E r \in TitleRows(df) : title = r.text

\* no Title row; two first-page rows of the same size, the later one higher up
\* and chosen
C4_Witness ==
  \E i \in Extracted :
    LET df == runs[i].df
    IN  /\ TitleRows(df) = {}
        /\ Len(df) = 2
        /\ df[1].page_num = 1 /\ df[2].page_num = 1
        /\ df[1].font_size = df[2].font_size
        /\ df[2].bbox.y0 < df[1].bbox.y0
        /\ df[1].text # df[2].text
        /\ output[i].data.title = df[2].text

\* a document without any row on its first page, and the empty title
C4_WitnessEmptyFirstPage ==
  \E i \in Extracted :
    /\ runs[i].df # <<>>
    /\ FirstPageRows(runs[i].df) = {}
    /\ output[i].data.title = <<>>

\* C5: the primary path.  With a row labelled Title the title is the text of a
\* Title row that no Title row precedes in (page, top coordinate).
C5_TitlePrimary ==
  \A i \in Extracted :
    LET df == runs[i].df
    IN  TitleRows(df) # {} =>
          \E r \in TitleRows(df) :
            /\ output[i].data.title = r.text
            /\ \A q \in TitleRows(df) :
                 /\ r.page_num <= q.page_num
                 /\ r.page_num = q.page_num => r.bbox.y0 <= q.bbox.y0

\* two Title rows of one page; the chosen one is the later span, higher up, and
\* has the smaller font
C5_Witness ==
  \E i \in Extracted :
    LET df == runs[i].df
    IN  /\ Len(df) = 2
        /\ TitleRows(df) = { df[1], df[2] }
        /\ df[1].page_num = df[2].page_num
        /\ df[2].bbox.y0 < df[1].bbox.y0
        /\ df[2].font_size < df[1].font_size
        /\ df[1].text # df[2].text
        /\ output[i].data.title = df[2].text

\* whether a document has no span with a character that is not whitespace
NoExtractableText(doc) ==
  \A p \in 1..Len(doc.pages) :
    \A k \in 1..Len(doc.pages[p]) :
      LET span == doc.pages[p][k]
      IN  span.type = 0 => \A c \in 1..Len(span.text) : span.text[c] \in Whitespace

\* C6: a readable document without extractable text gives the empty result,
\* and neither classifier is called.
C6_NoTextEmptyResult ==
  \A i \in Handled :
    (~pdf_files[i].corrupt /\ NoExtractableText(pdf_files[i])) =>
      /\ ~runs[i].raised
      /\ runs[i].result = [title |-> <<>>, outline |-> <<>>]
      /\ output[i] = [written |-> TRUE, data |-> [title |-> <<>>, outline |-> <<>>]]
      /\ runs[i].block_calls = 0
      /\ runs[i].level_calls = 0

\* a document of a whitespace span and an image block has been handled
C6_Witness ==
  \E i \in Handled :
    /\ ~pdf_files[i].corrupt
    /\ NoExtractableText(pdf_files[i])
    /\ \E k \in 1..Len(pdf_files[i].pages[1]) :
         /\ pdf_files[i].pages[1][k].type = 0
         /\ pdf_files[i].pages[1][k].text # <<>>
    /\ output[i].written

Failing == { i \in 1..Len(pdf_files) : pdf_files[i].corrupt }

\* the loop is over
LoopEnded == pc = "summary" \/ (pc = "exit" /\ extractor.ready)

\* C8: the loop handles every file.  While it runs the two counters add up to
\* the number of files handled and a failure leaves it running; when it is over
\* every file has its output, the empty result for a failing file and the
\* result of extract for the others, and error_count is the number of failing
\* files.
C8_BatchCompletes ==
  /\ pc = "loop" =>
       /\ next_file <= Len(pdf_files)
       /\ processed_count + error_count = next_file - 1
  /\ \A i \in Handled :
       /\ output[i].written
       /\ i \in Failing => output[i].data = [title |-> <<>>, outline |-> <<>>]
       /\ i \notin Failing => ~runs[i].raised /\ output[i].data = runs[i].result
  /\ LoopEnded =>
       /\ Handled = 1..Len(pdf_files)
       /\ processed_count + error_count = Len(pdf_files)
       /\ error_count = Cardinality(Failing)

\* a batch of three is over: the first file failed, the second has an outline
C8_Witness ==
  /\ pc = "exit"
  /\ Len(pdf_files) = 3
  /\ Failing = { 1 }
  /\ error_count = 1
  /\ processed_count = 2
  /\ output[1].data = EmptyResult
  /\ \E i \in 2..3 : output[i].data.outline # <<>>

\* C9: with an artifact file missing nothing is extracted and nothing written,
\* the run can only exit, and with files to handle it exits with status 1; a
\* file is only ever handled by an extractor that holds all four artifacts.
C9_AllOrNothingInit ==
  /\ present # AllArtifacts =>
       /\ Handled = {}
       /\ \A i \in 1..Len(pdf_files) : ~output[i].written /\ runs[i] = NoRun
       /\ ~extractor.ready
       /\ pc \in { "start", "exit" }
       /\ (pc = "exit" /\ input_exists /\ pdf_files # <<>>) => exit_code = 1
  /\ (pc = "loop" \/ Handled # {}) =>
       /\ extractor.ready
       /\ extractor.model_block.kind = "block"
       /\ extractor.model_level.kind = "level"
       /\ extractor.le_block # <<>>
       /\ extractor.le_level # <<>>

\* only the level vocabulary is missing, files wait, and the run has exited
C9_Witness ==
  /\ present = AllArtifacts \ { "level_label_encoder.joblib" }
  /\ Len(pdf_files) = 2
  /\ pc = "exit"
  /\ exit_code = 1

\* the result main records for a document, as a function of the artifacts alone
ResultOf(e, doc) ==
  LET done == Extract(e, doc)
  IN  IF done.raised THEN EmptyResult ELSE done.result

HeadingRows(df) == { r \in Range(df) : r.block_label = "heading" }

HeadingIndexes(df) == { r.index : r \in HeadingRows(df) }

\* the level the level classifier assigns to a row
LevelOf(e, row) ==
  InverseTransform(e.le_level, Argmax(Predict(e.model_level, Features(row))))

\* C13: outline conservation.  The level classifier is called once, on the
\* heading rows in frame order, and not at all without a heading row; the
\* sorted outline has one entry per heading row, with the row's text, page and
\* assigned level; the returned outline is the sorted outline, or the sorted
\* outline without its head, so it has h or h - 1 entries, all from heading rows.
C13_OutlineConservation ==
  \A i \in Extracted :
    LET df == runs[i].df
        sorted == runs[i].sorted
        kept == runs[i].kept
        input == runs[i].level_input
        h == Cardinality(HeadingIndexes(df))
    IN  /\ runs[i].level_calls = IF h = 0 THEN 0 ELSE 1
        /\ Len(input) = h
        /\ Range(input) = HeadingIndexes(df)
        /\ \A j \in 1..(Len(input) - 1) : input[j] < input[j + 1]
        /\ Len(sorted) = h
        /\ { sorted[j].index : j \in 1..Len(sorted) } = HeadingIndexes(df)
        /\ \A j \in 1..Len(sorted) :
             LET row == df[sorted[j].index + 1]
             IN  /\ row.block_label = "heading"
                 /\ sorted[j].text = row.text
                 /\ sorted[j].page = row.page_num
                 /\ sorted[j].level = LevelOf(LoadedExtractor(run), row)
        /\ kept = sorted \/ (sorted # <<>> /\ kept = Tail(sorted))
        /\ Len(output[i].data.outline) \in { h, h - 1 } \ { -1 }
        /\ Len(output[i].data.outline) = Len(kept)
        /\ \A j \in 1..Len(kept) : output[i].data.outline[j] = OutlineEntry(kept[j])

\* a Title row, a heading row and an outline of the heading alone
C13_Witness ==
  \E i \in Extracted :
    /\ Len(runs[i].df) = 2
    /\ runs[i].df[1].block_label = "Title"
    /\ runs[i].df[2].block_label = "heading"
    /\ runs[i].level_calls = 1
    /\ runs[i].level_input = << 1 >>
    /\ Len(output[i].data.outline) = 1
    /\ output[i].data.outline[1].text = runs[i].df[2].text

\* two rows, neither a heading: the level classifier is not called
C13_WitnessNoHeading ==
  \E i \in Extracted :
    /\ Len(runs[i].df) = 2
    /\ HeadingRows(runs[i].df) = {}
    /\ runs[i].block_calls = 1
    /\ runs[i].level_calls = 0
    /\ output[i].data.outline = <<>>

\* an empty unit: a line without words, or one whose joined text is only whitespace
EmptyUnit(line) ==
  \/ line = <<>>
  \/ \A k \in 1..Len(line) :
       \A c \in 1..Len(line[k].text) : line[k].text[c] \in Whitespace

\* C11: process_line called with an empty unit raises InvalidInput and appends
\* no feature row.
C11_EmptyUnitRejected ==
  (last_call.made /\ EmptyUnit(last_call.line)) =>
    /\ last_call.raised
    /\ Len(all_features) = last_call.rows_before

\* what process_line does with an empty unit: it returns without raising and
\* appends no feature row; any other line gets exactly one row, with its text
C11_EmptyUnitSkipped ==
  last_call.made =>
    /\ ~last_call.raised
    /\ IF EmptyUnit(last_call.line)
         THEN Len(all_features) = last_call.rows_before
         ELSE /\ Len(all_features) = last_call.rows_before + 1
              /\ all_features[Len(all_features)].text # <<>>

\* the line of the page each word is in, when the lines are consecutive runs
RECURSIVE LineOf(_, _)
LineOf(p, from) ==
  IF p <= Len(lines[from]) THEN from ELSE LineOf(p - Len(lines[from]), from + 1)

RECURSIVE Concat(_)
Concat(seqs) == IF seqs = <<>> THEN <<>> ELSE Head(seqs) \o Concat(Tail(seqs))

\* the page's words are grouped
Grouped == ds_pc \in { "lines", "done" } /\ words # <<>>

\* the lines are non-empty consecutive runs of the words, in order
ConsecutiveRuns ==
  /\ \A l \in 1..Len(lines) : lines[l] # <<>>
  /\ Concat(lines) = words

\* the tops of two words of the page are less than 5 apart
Near(p, q) ==
  (words[p].top - words[q].top < 5) /\ (words[q].top - words[p].top < 5)

\* C12 as stated: the lines are non-empty consecutive runs of the words, and
\* any two words are in the same line exactly when their tops are less than 5 apart.
C12_AnyTwoWords ==
  Grouped =>
    /\ ConsecutiveRuns
    /\ \A p, q \in 1..Len(words) : (LineOf(p, 1) = LineOf(q, 1)) <=> Near(p, q)

\* C12 amended: the lines are non-empty consecutive runs of the words, and two
\* words that follow each other are in the same line exactly when their tops
\* are less than 5 apart.
C12_ConsecutiveWords ==
  Grouped =>
    /\ ConsecutiveRuns
    /\ \A p \in 1..(Len(words) - 1) : (LineOf(p, 1) = LineOf(p + 1, 1)) <=> Near(p, p + 1)

\* one line of three words whose first and last are 5 apart
C12_Witness ==
  /\ Grouped
  /\ Len(words) = 3
  /\ Len(lines) = 1
  /\ words[1].top = 0
  /\ words[3].top = 5

\* two words exactly 5 apart, in two lines
C12_WitnessSplit ==
  /\ Grouped
  /\ Len(words) = 2
  /\ Len(lines) = 2
  /\ words[1].top = 0
  /\ words[2].top = 5

====
